---- MODULE Spec2Model ----
(***************************************************************************)
(* The DataParallel tutorial notebook (data_parallel_tutorial.ipynb) as a  *)
(* state machine: the dataset and loader cell, the model cell, the         *)
(* "Create Model and DataParallel" cell and the run loop, together with    *)
(* the behaviour of the framework calls they make (DataLoader batching,    *)
(* Tensor.to, nn.Linear, nn.DataParallel scatter / parallel apply /        *)
(* gather) as the notebook's Results and Summary cells describe it.        *)
(***************************************************************************)
EXTENDS Integers, Sequences, FiniteSets

(* ---------------- parameters of the notebook ---------------- *)

input_size == 5
output_size == 2
batch_size == 30
data_size == 100

(* ---------------- bounds of the model ---------------- *)

\* number of seeds of torch's random generator, which the dataset's randn,
\* nn.Linear's initialisation and the sampler's shuffle all draw from
NumSeeds == 1

\* the values of torch.cuda.device_count(): from no GPU at all to the largest
\* machine of the Results cell
DeviceCounts == 0..8

VARIABLES
    ndev,        \* torch.cuda.device_count()
    rng,         \* the seed of torch's random generator
    device,      \* the notebook's `device`
    data,        \* RandomDataset.data: data_size rows of input_size numbers
    len,         \* RandomDataset.len
    fc,          \* Model.fc: the nn.Linear layer (weight, bias, device)
    wrapped,     \* TRUE iff `model` is an nn.DataParallel
    pc,          \* position of the script
    order,       \* the index order drawn by the loader's shuffling sampler
    pos,         \* number of indices of `order` already consumed
    iter,        \* number of the current run-loop iteration
    batch,       \* `data` of the run loop: the collated batch
    input,       \* `input` of the run loop
    chunks,      \* DataParallel: the scattered slices, one per replica
    outs,        \* DataParallel: the replicas' outputs, by replica index
    done,        \* DataParallel: the replicas that have finished
    output,      \* `output` of the run loop
    delivered,   \* the index lists of the batches delivered so far
    transcript   \* the printed lines

vars == <<ndev, rng, device, data, len, fc, wrapped, pc, order, pos, iter, batch,
          input, chunks, outs, done, output, delivered, transcript>>

(* ---------------- helpers ---------------- *)

Min(a, b) == IF a < b THEN a ELSE b

SubSeqFrom(s, lo, hi) == [k \in 1..(hi - lo + 1) |-> s[lo + k - 1]]

NoTensor == [dev |-> "none", rows |-> <<>>]

\* Tensor.size() of a 2-d tensor
Size(t) == <<Len(t.rows), IF Len(t.rows) = 0 THEN 0 ELSE Len(t.rows[1])>>

\* Tensor.to(device): a new tensor with the same contents on `d`
To(t, d) == [dev |-> d, rows |-> t.rows]

(* ---------------- dataset and loader ---------------- *)

\* torch.randn(length, size) under seed s: small integers stand for the reals
Randn(length, size, s) ==
    [i \in 1..length |->
        [j \in 1..size |-> (((s + 2) * i + 3 * j + s) % 5) - 2]]

\* RandomDataset.__getitem__ (index is 0-based in the notebook)
GetItem(index) == data[index + 1]

\* RandomDataset.__len__
DatasetLen == len

\* torch.randperm(n) under seed p: the shuffling sampler's order of 0..n-1
RandPerm(n, p) == [k \in 1..n |-> ((10 * p + 3) * (k - 1) + 7 * p + 1) % n]

\* HasNext as it would be with drop_last on: only full batches are given
HasNextDropLast(p, n) == p + batch_size <= n

\* the batch sampler still has a batch to give (drop_last is off)
HasNext(p, n) == p < n

\* the indices of the next batch
NextIndices(p) == SubSeqFrom(order, p + 1, Min(p + batch_size, Len(order)))

\* default collate: stack the samples of a batch into one new tensor
Collate(idx) == [dev |-> "cpu", rows |-> [k \in 1..Len(idx) |-> GetItem(idx[k])]]

(* ---------------- model ---------------- *)

\* nn.Linear(input_size, output_size) initialised under seed s
NewLinear(s) ==
    [dev |-> "cpu",
     weight |-> [k \in 1..output_size |->
                    [j \in 1..input_size |-> ((k + 2 * j + s) % 3) - 1]],
     bias |-> [k \in 1..output_size |-> (k + s) % 2]]

RECURSIVE Dot(_, _, _)
Dot(w, x, j) == IF j = 0 THEN 0 ELSE w[j] * x[j] + Dot(w, x, j - 1)

\* self.fc applied to one sample
LinearRow(l, x) == [k \in 1..Len(l.weight) |-> Dot(l.weight[k], x, Len(x)) + l.bias[k]]

\* self.fc(input)
Linear(l, t) == [dev |-> t.dev, rows |-> [i \in 1..Len(t.rows) |-> LinearRow(l, t.rows[i])]]

\* the line printed by Model.forward
InModelLine(in, out) ==
    [kind |-> "InModel", iter |-> iter, insize |-> Size(in), outsize |-> Size(out), n |-> 0]

\* the line printed by the run loop
OutsideLine(in, out) ==
    [kind |-> "Outside", iter |-> iter, insize |-> Size(in), outsize |-> Size(out), n |-> 0]

\* the line printed when the model is wrapped
LetsUseLine(n) ==
    [kind |-> "LetsUse", iter |-> 0, insize |-> <<>>, outsize |-> <<>>, n |-> n]

(* ---------------- DataParallel ---------------- *)

CudaDev(r) == IF r = 1 THEN "cuda:0"
              ELSE IF r = 2 THEN "cuda:1"
              ELSE IF r = 3 THEN "cuda:2"
              ELSE "cuda:n"

\* SplitSize rounding up by adding one to the quotient
SplitSizeRoundUp(n, k) == n \div k + 1

\* SplitSize rounding down
SplitSizeFloor(n, k) == n \div k

\* torch.chunk: the size of each slice but the last when n rows go to k devices
SplitSize(n, k) == (n + k - 1) \div k

\* NumChunks giving every device a slice, empty or not
NumChunksAll(n, k) == k

\* torch.chunk: the number of slices
NumChunks(n, k) == (n + SplitSize(n, k) - 1) \div SplitSize(n, k)

\* scatter: slice r (1-based) of tensor t over k devices, placed on device r
Chunk(t, k, r) ==
    LET n == Len(t.rows)
        sz == SplitSize(n, k)
    IN [dev |-> CudaDev(r),
        rows |-> SubSeqFrom(t.rows, (r - 1) * sz + 1, Min(r * sz, n))]

Scattered(t, k) == [r \in 1..NumChunks(Len(t.rows), k) |-> Chunk(t, k, r)]

RECURSIVE CatRows(_, _)
CatRows(ts, k) == IF k = 0 THEN <<>> ELSE CatRows(ts, k - 1) \o ts[k].rows

\* Cat returning the first replica's output only
CatFirst(ts) == [dev |-> "cuda:0", rows |-> ts[1].rows]

\* gather: concatenate the replicas' outputs along dim 0 on the output device
Cat(ts) == [dev |-> "cuda:0", rows |-> CatRows(ts, Len(ts))]

\* ResultSlot storing the results in the order the replicas finish
ResultSlotByCompletion(r, finished) == Cardinality(finished) + 1

\* parallel_apply: the slot in which replica r's result is stored
ResultSlot(r, finished) == r

(* ---------------- the script ---------------- *)

Init ==
    /\ ndev \in DeviceCounts
    /\ device = (IF ndev > 0 THEN "cuda:0" ELSE "cpu")
    /\ rng \in 0..(NumSeeds - 1)
    /\ data = Randn(data_size, input_size, rng)
    /\ fc = NewLinear(rng)
    /\ len = data_size
    /\ wrapped = FALSE
    /\ pc = "create"
    /\ order = <<>>
    /\ pos = 0
    /\ iter = 0
    /\ batch = NoTensor
    /\ input = NoTensor
    /\ chunks = <<>>
    /\ outs = <<>>
    /\ done = {}
    /\ output = NoTensor
    /\ delivered = <<>>
    /\ transcript = <<>>

\* CreateModel wrapping the model whenever there is a GPU at all
CreateModelAlways ==
    /\ pc = "create"
    /\ IF ndev >= 1
         THEN /\ transcript' = Append(transcript, LetsUseLine(ndev))
              /\ wrapped' = TRUE
         ELSE /\ transcript' = transcript
              /\ wrapped' = FALSE
    /\ fc' = [fc EXCEPT !.dev = device]
    /\ pc' = "iter"
    /\ UNCHANGED <<ndev, rng, device, data, len, order, pos, iter, batch, input,
                   chunks, outs, done, output, delivered>>

\* CreateModel wrapping the model without announcing it
CreateModelSilent ==
    /\ pc = "create"
    /\ wrapped' = (ndev > 1)
    /\ fc' = [fc EXCEPT !.dev = device]
    /\ pc' = "iter"
    /\ UNCHANGED <<ndev, rng, device, data, len, order, pos, iter, batch, input,
                   chunks, outs, done, output, delivered, transcript>>

\* the "Create Model and DataParallel" cell
CreateModel ==
    /\ pc = "create"
    /\ IF ndev > 1
         THEN /\ transcript' = Append(transcript, LetsUseLine(ndev))
              /\ wrapped' = TRUE
         ELSE /\ transcript' = transcript
              /\ wrapped' = FALSE
    /\ fc' = [fc EXCEPT !.dev = device]
    /\ pc' = "iter"
    /\ UNCHANGED <<ndev, rng, device, data, len, order, pos, iter, batch, input,
                   chunks, outs, done, output, delivered>>

\* `for data in rand_loader`: the iterator is created, the sampler shuffles
IterLoader ==
    /\ pc = "iter"
    /\ order' = RandPerm(DatasetLen, rng)
    /\ pos' = 0
    /\ pc' = "loop"
    /\ UNCHANGED <<ndev, rng, device, data, len, fc, wrapped, iter, batch, input,
                   chunks, outs, done, output, delivered, transcript>>

\* the loop takes the next batch from the loader
LoadBatch ==
    /\ pc = "loop"
    /\ HasNext(pos, Len(order))
    /\ LET idx == NextIndices(pos)
       IN /\ batch' = Collate(idx)
          /\ delivered' = Append(delivered, idx)
          /\ pos' = pos + Len(idx)
    /\ iter' = iter + 1
    /\ pc' = "to"
    /\ UNCHANGED <<ndev, rng, device, data, len, fc, wrapped, order, input, chunks,
                   outs, done, output, transcript>>

\* the loader is exhausted: the loop ends
StopIteration ==
    /\ pc = "loop"
    /\ ~HasNext(pos, Len(order))
    /\ pc' = "done"
    /\ UNCHANGED <<ndev, rng, device, data, len, fc, wrapped, order, pos, iter,
                   batch, input, chunks, outs, done, output, delivered,
                   transcript>>

\* ToDevice moving the batch itself instead of copying it
ToDeviceInPlace ==
    /\ pc = "to"
    /\ batch' = To(batch, device)
    /\ input' = batch'
    /\ pc' = "call"
    /\ UNCHANGED <<ndev, rng, device, data, len, fc, wrapped, order, pos, iter,
                   chunks, outs, done, output, delivered, transcript>>

\* input = data.to(device)
ToDevice ==
    /\ pc = "to"
    /\ input' = To(batch, device)
    /\ pc' = "call"
    /\ UNCHANGED <<ndev, rng, device, data, len, fc, wrapped, order, pos, iter,
                   batch, chunks, outs, done, output, delivered, transcript>>

\* output = model(input) when model is the plain Model: Model.forward
Forward ==
    /\ pc = "call"
    /\ ~wrapped
    /\ LET out == Linear(fc, input)
       IN /\ output' = out
          /\ transcript' = Append(transcript, InModelLine(input, out))
    /\ pc' = "outside"
    /\ UNCHANGED <<ndev, rng, device, data, len, fc, wrapped, order, pos, iter,
                   batch, input, chunks, outs, done, delivered>>

\* output = model(input) when model is a DataParallel: scatter the input
Scatter ==
    /\ pc = "call"
    /\ wrapped
    /\ chunks' = Scattered(input, ndev)
    /\ outs' = [r \in 1..Len(chunks') |-> NoTensor]
    /\ done' = {}
    /\ pc' = "parallel"
    /\ UNCHANGED <<ndev, rng, device, data, len, fc, wrapped, order, pos, iter,
                   batch, input, output, delivered, transcript>>

\* one replica runs Model.forward on its slice
ReplicaForward(r) ==
    /\ pc = "parallel"
    /\ r \in (1..Len(chunks)) \ done
    /\ LET out == Linear(fc, chunks[r])
       IN /\ outs' = [outs EXCEPT ![ResultSlot(r, done)] = out]
          /\ transcript' = Append(transcript, InModelLine(chunks[r], out))
    /\ done' = done \cup {r}
    /\ UNCHANGED <<ndev, rng, device, data, len, fc, wrapped, pc, order, pos, iter,
                   batch, input, chunks, output, delivered>>

\* AllDone satisfied by the first replica to finish
SomeDone == done # {}

\* every replica has finished
AllDone == done = 1..Len(chunks)

\* every replica has finished: gather the outputs and return
Gather ==
    /\ pc = "parallel"
    /\ AllDone
    /\ output' = Cat(outs)
    /\ pc' = "outside"
    /\ UNCHANGED <<ndev, rng, device, data, len, fc, wrapped, order, pos, iter,
                   batch, input, chunks, outs, done, delivered, transcript>>

\* print("Outside: input size", input.size(), "output_size", output.size())
PrintOutside ==
    /\ pc = "outside"
    /\ transcript' = Append(transcript, OutsideLine(input, output))
    /\ pc' = "loop"
    /\ UNCHANGED <<ndev, rng, device, data, len, fc, wrapped, order, pos, iter,
                   batch, input, chunks, outs, done, output, delivered>>

Next ==
    \/ CreateModel
    \/ IterLoader
    \/ LoadBatch
    \/ StopIteration
    \/ ToDevice
    \/ Forward
    \/ Scatter
    \/ \E r \in 1..ndev : ReplicaForward(r)
    \/ Gather
    \/ PrintOutside

Spec == Init /\ [][Next]_vars

(* ---------------- reading the transcript ---------------- *)

\* the lines printed during run-loop iteration k, in the order printed
LinesOf(k) == SelectSeq(transcript, LAMBDA l : l.iter = k)

\* the "In Model" lines among the lines ls
InModel(ls) == SelectSeq(ls, LAMBDA l : l.kind = "InModel")

\* the "In Model" lines of iteration k
InModelOf(k) == InModel(LinesOf(k))

\* the lines ls end with an "Outside" line
Ended(ls) == Len(ls) > 0 /\ ls[Len(ls)].kind = "Outside"

\* iteration k has printed its "Outside" line
Finished(k) == \E i \in 1..Len(transcript) :
                  transcript[i].kind = "Outside" /\ transcript[i].iter = k

\* the "Outside" line of a finished iteration k
OutsideOf(k) == SelectSeq(transcript, LAMBDA l : l.iter = k /\ l.kind = "Outside")[1]

\* the number of "In Model" lines among ls that report a slice of n rows
CountSlices(ls, n) ==
    Cardinality({i \in 1..Len(ls) : ls[i].kind = "InModel" /\ ls[i].insize[1] = n})

RECURSIVE SumRows(_, _)
SumRows(ls, i) == IF i = 0 THEN 0 ELSE ls[i].insize[1] + SumRows(ls, i - 1)

\* an "In Model" line of a slice of n rows, as the Results cell prints it
IsInModel(l, n) ==
    /\ l.kind = "InModel"
    /\ l.insize = <<n, 5>>
    /\ l.outsize = <<n, 2>>

\* an "Outside" line of a batch of n rows, as the Results cell prints it
IsOutside(l, n) ==
    /\ l.kind = "Outside"
    /\ l.insize = <<n, 5>>
    /\ l.outsize = <<n, 2>>

\* the lines ls are exactly c "In Model" lines, then one "Outside" line of n rows
Shape(ls, c, n) ==
    /\ Len(ls) = c + 1
    /\ \A i \in 1..c : ls[i].kind = "InModel"
    /\ IsOutside(ls[c + 1], n)

(* ---------------- C1 ---------------- *)

\* C1: with exactly 2 devices, every batch of 30 is printed as two "In Model"
\* lines of [15,5] -> [15,2] followed by "Outside" [30,5] -> [30,2], and the
\* final batch of 10 as two lines of [5,5] -> [5,2] followed by "Outside"
\* [10,5] -> [10,2].
C1_TwoDevices ==
    ndev = 2 =>
        \A k \in 1..iter :
            LET ls == LinesOf(k)
                n == Len(delivered[k])
            IN Ended(ls) =>
                /\ n \in {30, 10}
                /\ n = 30 => /\ Shape(ls, 2, 30)
                             /\ \A i \in 1..2 : IsInModel(ls[i], 15)
                /\ n = 10 => /\ Shape(ls, 2, 10)
                             /\ \A i \in 1..2 : IsInModel(ls[i], 5)

C1_Witness ==
    /\ ndev = 2
    /\ pc = "done"
    /\ Finished(1) /\ Len(delivered[1]) = 30
    /\ Finished(4) /\ Len(delivered[4]) = 10

(* ---------------- C2 ---------------- *)

\* C2: with no GPU or one GPU the model is not wrapped, no "Let's use" line is
\* printed, and every batch prints exactly one "In Model" line whose extents
\* are those of the "Outside" line that follows it (30 in, 30 out for a full
\* batch).
C2_SingleDevice ==
    ndev <= 1 =>
        /\ ~wrapped
        /\ \A i \in 1..Len(transcript) : transcript[i].kind # "LetsUse"
        /\ \A k \in 1..iter :
              LET ls == LinesOf(k)
                  n == Len(delivered[k])
              IN Ended(ls) =>
                  /\ Shape(ls, 1, n)
                  /\ IsInModel(ls[1], n)
                  /\ ls[1].insize = ls[2].insize
                  /\ ls[1].outsize = ls[2].outsize
                  /\ (k = 1 => n = 30)

C2_Witness ==
    /\ ndev = 1
    /\ pc = "done"
    /\ Finished(1) /\ Finished(4)
    /\ Len(transcript) = 8

(* ---------------- C3 ---------------- *)

\* C3: with exactly 3 devices, every batch of 30 prints three "In Model" lines
\* of 10 rows each, and the final batch of 10 prints three lines of 4, 4 and
\* 2 rows.
C3_ThreeDevices ==
    ndev = 3 =>
        /\ \A k \in 1..iter :
              LET ls == LinesOf(k)
                  n == Len(delivered[k])
              IN Ended(ls) =>
                  /\ n = 30 => /\ Shape(ls, 3, 30)
                               /\ \A i \in 1..3 : IsInModel(ls[i], 10)
                  /\ n = 10 => /\ Shape(ls, 3, 10)
                               /\ \A i \in 1..3 : \E m \in {4, 2} : IsInModel(ls[i], m)
                               /\ CountSlices(ls, 4) = 2
                               /\ CountSlices(ls, 2) = 1
        /\ (pc = "parallel" /\ Len(input.rows) = 10) =>
              [r \in 1..Len(chunks) |-> Len(chunks[r].rows)] = <<4, 4, 2>>

C3_Witness ==
    /\ ndev = 3
    /\ pc = "done"
    /\ Finished(3) /\ Len(delivered[3]) = 30
    /\ Finished(4) /\ Len(delivered[4]) = 10
    /\ LinesOf(4)[1].insize = <<2, 5>>

(* ---------------- C4 ---------------- *)

\* C4: with exactly 8 devices, every batch of 30 prints eight "In Model" lines,
\* seven of 4 rows and one of 2 rows, and the final batch of 10 prints only
\* five lines, each of 2 rows; no replica is ever called on an empty slice.
C4_EightDevices ==
    ndev = 8 =>
        /\ \A k \in 1..iter :
              LET ls == LinesOf(k)
                  n == Len(delivered[k])
              IN Ended(ls) =>
                  /\ n = 30 => /\ Shape(ls, 8, 30)
                               /\ \A i \in 1..8 : \E m \in {4, 2} : IsInModel(ls[i], m)
                               /\ CountSlices(ls, 4) = 7
                               /\ CountSlices(ls, 2) = 1
                  /\ n = 10 => /\ Shape(ls, 5, 10)
                               /\ \A i \in 1..5 : IsInModel(ls[i], 2)
                               /\ 5 < ndev
        /\ \A i \in 1..Len(transcript) :
              transcript[i].kind = "InModel" => transcript[i].insize[1] > 0
        /\ pc = "parallel" => \A r \in 1..Len(chunks) : Len(chunks[r].rows) > 0

C4_Witness ==
    /\ ndev = 8
    /\ pc = "done"
    /\ Finished(1) /\ Len(delivered[1]) = 30
    /\ Finished(4) /\ Len(delivered[4]) = 10
    /\ Len(InModelOf(4)) = 5

(* ---------------- C5 ---------------- *)

\* C5: for every device count and every batch, the rows of the batch's
\* "In Model" lines sum to the rows of the batch; every slice is input_size
\* wide going in and output_size wide coming out, with as many rows out as in;
\* and the "Outside" line reports as many output rows as input rows, and
\* output_size columns.
C5_Conservation ==
    /\ \A i \in 1..Len(transcript) :
          transcript[i].kind = "InModel" =>
             /\ transcript[i].insize[2] = input_size
             /\ transcript[i].outsize = <<transcript[i].insize[1], output_size>>
    /\ \A k \in 1..iter :
          LET ls == LinesOf(k)
              n == Len(delivered[k])
              slices == InModel(ls)
          IN Ended(ls) =>
              /\ SumRows(slices, Len(slices)) = n
              /\ ls[Len(ls)].insize = <<n, input_size>>
              /\ ls[Len(ls)].outsize = <<n, output_size>>

C5_Witness ==
    /\ ndev = 4
    /\ pc = "done"
    /\ Finished(4)
    /\ Len(InModelOf(1)) = 4
    /\ Len(InModelOf(4)) = 4

(* ---------------- C6 ---------------- *)

\* C6: in the transcript the lines of one batch are contiguous and end with
\* that batch's "Outside" line: every "In Model" line of a batch precedes the
\* batch's "Outside" line, no line of a later batch precedes it, and when the
\* wrapped model returns every replica has finished its slice and printed its
\* line.
C6_Ordering ==
    /\ \A i \in 1..(Len(transcript) - 1) :
          /\ transcript[i].iter <= transcript[i + 1].iter
          /\ transcript[i].kind = "Outside" =>
                transcript[i].iter < transcript[i + 1].iter
    /\ \A k \in 1..iter :
          LET ls == LinesOf(k)
          IN /\ \A i \in 1..(Len(ls) - 1) : ls[i].kind = "InModel"
             /\ Ended(ls) => SumRows(ls, Len(ls) - 1) = ls[Len(ls)].insize[1]
             /\ k < iter => Ended(ls)
    /\ (pc = "outside" /\ wrapped) =>
          /\ done = 1..Len(chunks)
          /\ Len(LinesOf(iter)) = Len(chunks)
          /\ \A r \in 1..Len(chunks) : outs[r] # NoTensor

C6_Witness ==
    /\ ndev = 3
    /\ pc = "parallel"
    /\ iter = 2
    /\ Finished(1)
    /\ Cardinality(done) = 2
    /\ Len(InModelOf(2)) = 2

(* ---------------- C7 ---------------- *)

\* the steps one run-loop iteration can take, at most
StepsPerIter == batch_size + 10

\* a bound on the number of steps the script still has to take
Variant ==
    LET left == IF pc \in {"create", "iter"} THEN data_size ELSE Len(order) - pos
        phase == CASE pc = "create"   -> StepsPerIter + 3
                   [] pc = "iter"     -> StepsPerIter + 2
                   [] pc = "done"     -> 0
                   [] pc = "loop"     -> 1
                   [] pc = "outside"  -> 2
                   [] pc = "parallel" -> StepsPerIter - 3 - Cardinality(done)
                   [] pc = "call"     -> StepsPerIter - 2
                   [] pc = "to"       -> StepsPerIter - 1
    IN left * StepsPerIter + phase

\* the dataset indices delivered so far, with repetitions counted
TimesDelivered(x) ==
    Cardinality({<<k, i>> \in (1..Len(delivered)) \X (1..batch_size) :
                    i <= Len(delivered[k]) /\ delivered[k][i] = x})

\* what holds when the run loop has ended
C7_Final ==
    /\ iter = 4
    /\ [k \in 1..Len(delivered) |-> Len(delivered[k])] = <<30, 30, 30, 10>>
    /\ Cardinality({i \in 1..Len(transcript) : transcript[i].kind = "Outside"}) = 4
    /\ [k \in 1..4 |-> OutsideOf(k).insize[1]] = <<30, 30, 30, 10>>
    /\ \A x \in 0..99 : TimesDelivered(x) = 1

\* C7: one pass of the run loop ends after exactly 4 iterations with batches of
\* 30, 30, 30 and 10 samples and 4 "Outside" lines, every dataset index 0..99
\* delivered in exactly one batch.  It always ends: every step lowers Variant,
\* a natural number, and the script can take a step until it has ended.
C7_OnePass ==
    /\ [](pc = "done" => C7_Final)
    /\ [](iter <= 4 /\ Variant >= 0 /\ (pc # "done" => ENABLED Next))
    /\ [][Variant' < Variant]_vars

C7_Witness ==
    /\ pc = "done"
    /\ iter = 4
    /\ Len(delivered) = 4
    /\ delivered[4][10] # 99

(* ---------------- C8 ---------------- *)

\* the "Let's use N GPUs!" line is the first line and is printed only once
LetsUseOnceFirst ==
    /\ Len(transcript) >= 1
    /\ transcript[1] = LetsUseLine(ndev)
    /\ \A i \in 2..Len(transcript) : transcript[i].kind # "LetsUse"

\* C8: once the model-creation cell has run, the model is wrapped iff the
\* device count is greater than 1, in which case "Let's use N GPUs!" with N the
\* device count is the first line of the transcript and is printed only once;
\* and no later step changes whether the model is wrapped.
C8_Wrapping ==
    /\ [](pc # "create" =>
            /\ wrapped <=> (ndev > 1)
            /\ wrapped => LetsUseOnceFirst)
    /\ [][pc # "create" => wrapped' = wrapped]_vars

C8_Witness ==
    /\ ndev = 3
    /\ wrapped
    /\ pc = "done"
    /\ transcript[1].kind = "LetsUse"
    /\ transcript[1].n = 3

(* ---------------- C9 ---------------- *)

C10_DatasetFrame ==
    /\ [](/\ Len(data) = data_size
          /\ \A i \in 1..Len(data) : Len(data[i]) = input_size
          /\ DatasetLen = data_size)
    /\ [][/\ data' = data
          /\ len' = len
          /\ \A i \in {0, 1, DatasetLen - 1} : GetItem(i)' = GetItem(i)
          /\ pc = "to" => /\ batch' = batch
                          /\ input'.rows = batch.rows
                          /\ input'.dev = device]_vars

C10_Witness ==
    /\ ndev = 2
    /\ pc = "done"
    /\ iter = 4
    /\ input.dev = "cuda:0"
    /\ batch.dev = "cpu"
    /\ input.rows = batch.rows

====
